---------------------------- MODULE Spec2Model ----------------------------
(***************************************************************************)
(* A model of the gitreader library (vektra/gitreader): the pack index     *)
(* lookup, the pack entry reader with its delta chains, the delta applier, *)
(* and the repository facade (loaders, references, tree walk).             *)
(*                                                                         *)
(* Byte buffers are sequences of integers 0..255; a Go slice x[a:b] is     *)
(* SubSeq(x, a+1, b).  A Go run-time panic (index or slice out of range)   *)
(* is the outcome "panic".                                                 *)
(***************************************************************************)
EXTENDS Integers, Sequences, FiniteSets, TLC

VARIABLES
    \* ---- applyDelta (src/pack.go 271-341)
    dsrc,          \* how the input was built: raw bytes, or an instruction list
    baseIn,        \* the base handed in: its bytes, or the name of the long base
    delta,         \* the bytes read from patch_r, as handed in
    patch,         \* patch: the part of delta not consumed yet
    result,        \* result: the buffer of resultLength bytes
    resultLength,  \* resultLength
    loc,           \* loc: the write cursor
    dpc,           \* "call", "loop" or "done"
    dret,          \* "none", "ok", "ErrBadDelta" or "panic"
    \* ---- Pack.FindOffset (src/pack.go 116-154)
    ixsrc,         \* the table the index file was written from: ids, crcs, offsets
    index,         \* p.index: the bytes of the .idx file
    fid,           \* id: the string asked for, as character codes
    fst,           \* the locals of the search: cnt, lo, hi, loc (and size, idBytes)
    ipc,           \* "call", "search" or "done"
    iret,          \* "none", "ok", "ErrNotExist", "hex" (DecodeString's error) or "panic"
    ioffset,       \* the offset returned, as (bit 31, low 31 bits)
    \* ---- Repo (src/repo.go)
    files,         \* the files under r.Base that hold references: path -> content
    loaders,       \* r.Loaders, in registration order
    rcall,         \* the call in progress: [op, a1, a2]
    rpc,           \* "call", "pack" (inside a pack's LoadObject) or "done"
    lpos,          \* Repo.LoadObject: the position of its range loop over r.Loaders
    lqueried,      \* Repo.LoadObject: the loaders asked so far, in order
    rret,          \* the call's result: [err, val, obj]
    \* ---- Pack.LoadObject, readObject, readRaw (src/pack.go 156-261)
    psrc,          \* the entries the pack files were written from, pack by pack
    pst,           \* readRaw: offset, the entries awaiting their base, type, size, body
    pret           \* the last answer of a pack: [pack, res]

deltaVars == <<dsrc, baseIn, delta, patch, result, resultLength, loc, dpc, dret>>

idxVars == <<ixsrc, index, fid, fst, ipc, iret, ioffset>>

repoVars == <<files, loaders, rcall, rpc, lpos, lqueried, rret>>

packVars == <<psrc, pst, pret>>

vars == <<deltaVars, idxVars, repoVars, packVars>>

(***************************************************************************)
(* Helpers on bytes and sequences.                                         *)
(***************************************************************************)
Min(a, b) == IF a < b THEN a ELSE b

Pow2(n) == 2 ^ n

\* op & (1 << j) != 0
Bit(b, j) == (b \div Pow2(j)) % 2 = 1

\* x[from:] of Go, from <= len(x)
Drop(x, from) == SubSeq(x, from + 1, Len(x))

\* make([]byte, n)
Zeros(n) == [i \in 1..n |-> 0]

\* copy(dst[at:], src) of Go, at <= len(dst): min(len(dst) - at, len(src)) bytes
CopyInto(dst, at, src) ==
    LET m == Min(Len(dst) - at, Len(src))
    IN  SubSeq(dst, 1, at) \o SubSeq(src, 1, m) \o SubSeq(dst, at + m + 1, Len(dst))

RECURSIVE SeqsUpTo(_, _)
\* every sequence over S of length at most n
SeqsUpTo(S, n) ==
    IF n = 0 THEN {<<>>}
    ELSE LET shorter == SeqsUpTo(S, n - 1)
         IN  shorter \cup {Append(s, x) : s \in {t \in shorter : Len(t) = n - 1}, x \in S}

RECURSIVE Flatten(_)
\* the sequences of ss one after the other
Flatten(ss) ==
    IF Len(ss) = 0 THEN <<>>
    ELSE IF Len(ss) = 1 THEN ss[1]
    ELSE Flatten(SubSeq(ss, 1, Len(ss) \div 2))
             \o Flatten(SubSeq(ss, Len(ss) \div 2 + 1, Len(ss)))

(***************************************************************************)
(* decodeVarint (src/pack.go 343-355): LSB-first, high bit continues.      *)
(* buf[n] panics once n reaches len(buf).                                  *)
(***************************************************************************)
RECURSIVE decodeVarintFrom(_, _, _, _)
decodeVarintFrom(buf, n, shift, x) ==
    IF n >= Len(buf) THEN [panic |-> TRUE, x |-> 0, n |-> n]
    ELSE LET b  == buf[n + 1]
             x2 == x + (b % 128) * Pow2(shift)
         IN  IF b < 128 THEN [panic |-> FALSE, x |-> x2, n |-> n + 1]
             ELSE decodeVarintFrom(buf, n + 1, shift + 7, x2)

decodeVarint(buf) == decodeVarintFrom(buf, 0, 0, 0)

(***************************************************************************)
(* applyDelta (src/pack.go 271-341), one operator per step of the loop.    *)
(* A step yields the next [ret, patch, result, resultLength, loc].         *)
(***************************************************************************)
DeltaHalt(r) ==
    [ret |-> r, patch |-> <<>>, result |-> <<>>, resultLength |-> 0, loc |-> 0]

\* lines 282-293: the two varints and the allocation of result
applyDeltaBegin(b, d) ==
    LET v1 == decodeVarint(d)
    IN  IF v1.panic THEN DeltaHalt("panic")
        ELSE IF v1.x # Len(b) THEN DeltaHalt("ErrBadDelta")
        ELSE LET p1 == Drop(d, v1.n)
                 v2 == decodeVarint(p1)
             IN  IF v2.panic THEN DeltaHalt("panic")
                 ELSE [ret          |-> "run",
                       patch        |-> Drop(p1, v2.n),
                       result       |-> Zeros(v2.x),
                       resultLength |-> v2.x,
                       loc          |-> 0]

\* lines 300-307: an insert of n = op bytes
applyDeltaInsert(st) ==
    LET n == st.patch[1]
    IN  IF st.loc > Len(st.result) THEN DeltaHalt("panic")         \* result[loc:]
        ELSE IF 1 + n > Len(st.patch) THEN DeltaHalt("panic")      \* patch[i+n:]
        ELSE [st EXCEPT !.result = CopyInto(st.result, st.loc, SubSeq(st.patch, 2, 1 + n)),
                        !.loc    = st.loc + n,
                        !.patch  = Drop(st.patch, 1 + n)]

RECURSIVE readOperands(_, _, _, _, _, _, _)
\* lines 310-316 and 319-325: one byte per set bit among nbits bits from bit0
readOperands(p, op, bit0, nbits, j, i, acc) ==
    IF j = nbits THEN [panic |-> FALSE, i |-> i, v |-> acc]
    ELSE IF Bit(op, bit0 + j)
         THEN IF i >= Len(p) THEN [panic |-> TRUE, i |-> i, v |-> acc]   \* patch[i]
              ELSE readOperands(p, op, bit0, nbits, j + 1, i + 1,
                                acc + p[i + 1] * Pow2(8 * j))
         ELSE readOperands(p, op, bit0, nbits, j + 1, i, acc)

\* line 327-329: a copy length assembled as zero stands for 1 << 16
ZeroCopyLength == 65536

\* the slip of leaving a zero copy length as it is
copyLengthKeptZero(assembled) == assembled

copyLengthOf(assembled) == IF assembled = 0 THEN ZeroCopyLength ELSE assembled

\* lines 309-337: a copy from base
applyDeltaCopy(b, st) ==
    LET op  == st.patch[1]
        off == readOperands(st.patch, op, 0, 4, 0, 1, 0)
    IN  IF off.panic THEN DeltaHalt("panic")
        ELSE LET len == readOperands(st.patch, op, 4, 3, 0, off.i, 0)
             IN  IF len.panic THEN DeltaHalt("panic")
                 ELSE LET copyOffset == off.v
                          copyLength == copyLengthOf(len.v)
                      IN  IF copyOffset + copyLength > Len(b) THEN DeltaHalt("ErrBadDelta")
                          ELSE IF st.loc > Len(st.result) THEN DeltaHalt("panic")  \* result[loc:]
                          ELSE IF copyLength > Len(st.result) - st.loc THEN DeltaHalt("ErrBadDelta")
                          ELSE [st EXCEPT
                                  !.result = CopyInto(st.result, st.loc,
                                                 SubSeq(b, copyOffset + 1, copyOffset + copyLength)),
                                  !.loc    = st.loc + copyLength,
                                  !.patch  = Drop(st.patch, len.i)]

\* lines 294-340: one turn of the loop, or the return once patch is empty
applyDeltaStep(b, st) ==
    IF Len(st.patch) = 0 THEN [st EXCEPT !.ret = "ok"]
    ELSE IF st.patch[1] = 0 THEN DeltaHalt("ErrBadDelta")
    ELSE IF st.patch[1] < 128 THEN applyDeltaInsert(st)
    ELSE applyDeltaCopy(b, st)

RECURSIVE applyDeltaLoop(_, _)
applyDeltaLoop(b, st) ==
    IF st.ret # "run" THEN st ELSE applyDeltaLoop(b, applyDeltaStep(b, st))

\* applyDelta as a function of the two byte sequences
applyDelta(b, d) == applyDeltaLoop(b, applyDeltaBegin(b, d))


(***************************************************************************)
(* The parts of the state a specification does not use stay as they are.   *)
(***************************************************************************)
NoOffset == [b31 |-> 0, low |-> 0]

DeltaIdle ==
    /\ dsrc = [kind |-> "raw", ops |-> <<>>, rlen |-> 0]
    /\ baseIn = [long |-> FALSE, bytes |-> <<>>]
    /\ delta = <<>> /\ patch = <<>> /\ result = <<>>
    /\ resultLength = 0 /\ loc = 0 /\ dpc = "idle" /\ dret = "none"

IdxIdle ==
    /\ ixsrc = [ids |-> <<>>, crcs |-> <<>>, offs |-> <<>>]
    /\ index = <<>> /\ fid = <<>>
    /\ fst = [ret |-> "none"]
    /\ ipc = "idle" /\ iret = "none" /\ ioffset = NoOffset

\* an Object: Type, Size and the bytes of its body; of a commit the tree id
\* Commit() reads, of a tree the entries Tree() reads
NoObject == [Type |-> "", Size |-> 0, Body |-> <<>>, Tree |-> <<>>, Entries |-> <<>>]

NoResult == [err |-> "none", val |-> <<>>, obj |-> NoObject]

RepoIdle ==
    /\ files = <<>> /\ loaders = <<>>
    /\ rcall = [op |-> "none", a1 |-> <<>>, a2 |-> <<>>]
    /\ rpc = "idle" /\ lpos = 0 /\ lqueried = <<>>
    /\ rret = NoResult

RawIdle ==
    [ret |-> "none", phase |-> "", offset |-> 0, stack |-> <<>>, objType |-> 0,
     objSize |-> 0, body |-> <<>>]

PackIdle ==
    /\ psrc = <<>>
    /\ pst = RawIdle
    /\ pret = [pack |-> 0, res |-> NoResult]

(***************************************************************************)
(* Inputs of applyDelta.  A delta is handed in either as raw bytes (any    *)
(* byte string, truncated and malformed ones included) or as the encoding  *)
(* of an instruction list: an insert [op = n, args = the n literal bytes], *)
(* a copy [op = 0x80 + selector bits, args = the selected operand bytes].  *)
(***************************************************************************)
MaxRawLen == 3
MaxOps == 2

\* bytes of raw deltas: 0x00, small lengths and inserts, continuation bytes
\* and copy opcodes 0x80, 0x81 (offset byte), 0x90 (length byte), 0x91 (both)
RawBytes == {0, 1, 2, 128, 129, 144, 145}

SmallBases == {<<>>, <<7>>, <<7, 8>>, <<7, 8, 9>>}

BigBaseLen == ZeroCopyLength + 1

BigBase == [i \in 1..BigBaseLen |-> (i * 7) % 251]

Insert(lit) == [k |-> "insert", op |-> Len(lit), args |-> lit]

Copy(sel, operands) == [k |-> "copy", op |-> 128 + sel, args |-> operands]

\* inserts of one and two bytes; copies (offset 0, length 1), (1, 1), (1, 2),
\* (0, 2 given as two length bytes 2, 0)
SmallInstrs ==
    { Insert(<<5>>), Insert(<<5, 6>>),
      Copy(16, <<1>>), Copy(17, <<1, 1>>), Copy(17, <<1, 2>>), Copy(48, <<2, 0>>) }

\* copies of 65536 bytes: no operand at all, a zero length byte, an offset
\* byte and no length, three zero length bytes; and 65536 written out as
\* the third length byte
BigOps ==
    { <<Copy(0, <<>>)>>,
      <<Copy(16, <<0>>)>>,
      <<Copy(1, <<1>>)>>,
      <<Copy(112, <<0, 0, 0>>)>>,
      <<Copy(64, <<1>>)>>,
      <<Insert(<<5>>), Copy(0, <<>>)>>,
      <<Copy(1, <<1>>), Insert(<<5, 6>>)>>,
      <<Copy(32, <<1>>), Copy(16, <<0>>)>> }

RECURSIVE EncodeVarint(_)
\* the size varint of n: 7 bits a byte, low bits first, high bit = more follow
EncodeVarint(n) ==
    IF n < 128 THEN <<n>> ELSE <<128 + (n % 128)>> \o EncodeVarint(n \div 128)

EncodeInstr(ins) == <<ins.op>> \o ins.args

EncodeDelta(baseLen, rlen, ops) ==
    EncodeVarint(baseLen) \o EncodeVarint(rlen)
        \o Flatten([i \in 1..Len(ops) |-> EncodeInstr(ops[i])])

(***************************************************************************)
(* What an instruction list means (the delta format): the operand selected *)
(* by bit q of the opcode is the byte that follows the operands of the set *)
(* bits below q.                                                           *)
(***************************************************************************)
Operand(ins, q, j) ==
    IF Bit(ins.op, q)
    THEN ins.args[Cardinality({r \in 0..(q - 1) : Bit(ins.op, r)}) + 1] * Pow2(8 * j)
    ELSE 0

InstrCopyOffset(ins) ==
    Operand(ins, 0, 0) + Operand(ins, 1, 1) + Operand(ins, 2, 2) + Operand(ins, 3, 3)

InstrCopyLengthField(ins) ==
    Operand(ins, 4, 0) + Operand(ins, 5, 1) + Operand(ins, 6, 2)

InstrCopyLength(ins) ==
    IF InstrCopyLengthField(ins) = 0 THEN 65536 ELSE InstrCopyLengthField(ins)

InstrLength(ins) == IF ins.k = "insert" THEN Len(ins.args) ELSE InstrCopyLength(ins)

RECURSIVE TotalLength(_)
TotalLength(ops) ==
    IF ops = <<>> THEN 0 ELSE InstrLength(Head(ops)) + TotalLength(Tail(ops))

InstrBytes(b, ins) ==
    IF ins.k = "insert" THEN ins.args
    ELSE SubSeq(b, InstrCopyOffset(ins) + 1, InstrCopyOffset(ins) + InstrCopyLength(ins))

\* the bytes the instructions denote, in order
Interpret(b, ops) == Flatten([i \in 1..Len(ops) |-> InstrBytes(b, ops[i])])

\* every copy inside the base, every instruction inside the result, and the
\* instructions filling exactly rlen bytes
WellFormed(b, ops, rlen) ==
    /\ \A i \in 1..Len(ops) :
          /\ ops[i].k = "copy" => InstrCopyOffset(ops[i]) + InstrCopyLength(ops[i]) <= Len(b)
          /\ TotalLength(SubSeq(ops, 1, i)) <= rlen
    /\ TotalLength(ops) = rlen

RawSrc == [kind |-> "raw", ops |-> <<>>, rlen |-> 0]

\* a base given by its bytes, and the long base given by name
Given(b) == [long |-> FALSE, bytes |-> b]

TheLongBase == [long |-> TRUE, bytes |-> <<>>]

BytesOf(in) == IF in.long THEN BigBase ELSE in.bytes

DeltaInputs ==
    { [src |-> RawSrc, base |-> Given(b), delta |-> d] :
          b \in {<<>>, <<7>>, <<7, 8>>}, d \in SeqsUpTo(RawBytes, MaxRawLen) }
    \cup
    { [src   |-> [kind |-> "ops", ops |-> in[2], rlen |-> TotalLength(in[2]) + in[3]],
       base  |-> Given(in[1]),
       delta |-> EncodeDelta(Len(in[1]), TotalLength(in[2]) + in[3], in[2])] :
          in \in SmallBases \X SeqsUpTo(SmallInstrs, MaxOps) \X {0, 1} }
    \cup
    { [src   |-> [kind |-> "ops", ops |-> ops, rlen |-> TotalLength(ops)],
       base  |-> TheLongBase,
       delta |-> EncodeDelta(BigBaseLen, TotalLength(ops), ops)] : ops \in BigOps }

(***************************************************************************)
(* applyDelta as a state machine: the call, then one action per turn of    *)
(* the loop over patch.                                                    *)
(***************************************************************************)
DeltaInit ==
    \E in \in DeltaInputs :
        /\ dsrc = in.src
        /\ baseIn = in.base
        /\ delta = in.delta
        /\ patch = in.delta
        /\ result = <<>>
        /\ resultLength = 0
        /\ loc = 0
        /\ dpc = "call"
        /\ dret = "none"
        /\ IdxIdle
        /\ RepoIdle
        /\ PackIdle

\* base: the bytes read from base_r
base == BytesOf(baseIn)

DeltaState == [ret |-> "run", patch |-> patch, result |-> result,
               resultLength |-> resultLength, loc |-> loc]

DeltaAssign(st) ==
    /\ patch' = st.patch
    /\ result' = st.result
    /\ resultLength' = st.resultLength
    /\ loc' = st.loc
    /\ dpc' = IF st.ret = "run" THEN "loop" ELSE "done"
    /\ dret' = IF st.ret = "run" THEN "none" ELSE st.ret
    /\ UNCHANGED <<dsrc, baseIn, delta>>
    /\ UNCHANGED <<idxVars, repoVars, packVars>>

ApplyDeltaBegin ==
    /\ dpc = "call"
    /\ DeltaAssign(applyDeltaBegin(base, delta))

ApplyDeltaBadOpcode ==
    /\ dpc = "loop" /\ Len(patch) > 0 /\ patch[1] = 0
    /\ DeltaAssign(applyDeltaStep(base, DeltaState))

ApplyDeltaInsert ==
    /\ dpc = "loop" /\ Len(patch) > 0 /\ patch[1] \in 1..127
    /\ DeltaAssign(applyDeltaStep(base, DeltaState))

ApplyDeltaCopy ==
    /\ dpc = "loop" /\ Len(patch) > 0 /\ patch[1] >= 128
    /\ DeltaAssign(applyDeltaStep(base, DeltaState))

ApplyDeltaReturn ==
    /\ dpc = "loop" /\ Len(patch) = 0
    /\ DeltaAssign(applyDeltaStep(base, DeltaState))

DeltaNext ==
    \/ ApplyDeltaBegin
    \/ ApplyDeltaBadOpcode
    \/ ApplyDeltaInsert
    \/ ApplyDeltaCopy
    \/ ApplyDeltaReturn

SpecDelta == DeltaInit /\ [][DeltaNext]_vars

(***************************************************************************)
(* C9: for a well-formed delta (base length |B|, every copy and insert in  *)
(* bounds, the instructions filling exactly result_len bytes) applyDelta   *)
(* returns the bytes its instructions denote, in order, a copy length      *)
(* assembled as zero standing for 65536 bytes, and the size it returns is  *)
(* result_len.                                                             *)
(***************************************************************************)
C9_WellFormedDeltaInterpreted ==
    (dpc = "done" /\ dsrc.kind = "ops" /\ WellFormed(base, dsrc.ops, dsrc.rlen))
        => /\ dret = "ok"
           /\ result = Interpret(base, dsrc.ops)
           /\ resultLength = dsrc.rlen
           /\ Len(result) = dsrc.rlen

\* a well-formed delta has been applied whose copy has a length assembled as
\* zero, and 65536 bytes of the base, from a non-zero offset, are in the result
C9_Witness ==
    /\ dpc = "done" /\ dret = "ok" /\ dsrc.kind = "ops"
    /\ WellFormed(base, dsrc.ops, dsrc.rlen)
    /\ \E i \in 1..Len(dsrc.ops) :
          /\ dsrc.ops[i].k = "copy"
          /\ InstrCopyLengthField(dsrc.ops[i]) = 0
          /\ InstrCopyOffset(dsrc.ops[i]) = 1
    /\ Len(result) >= 65536
    /\ SubSeq(result, 1, 65536) = SubSeq(base, 2, 65537)

(***************************************************************************)
(* C10: for every base and every delta byte string, truncated and          *)
(* malformed ones included, applyDelta returns a result or fails with bad  *)
(* delta; it never reads or writes out of range and never crashes.         *)
(***************************************************************************)
C10_NeverCrashes == dret \in {"none", "ok", "ErrBadDelta"}

(***************************************************************************)
(* C11: applyDelta returns a result only if, the instructions exhausted,   *)
(* the write cursor equals the declared result length: a delta whose       *)
(* instructions produce fewer bytes than it declares is rejected, and no   *)
(* result is returned whose tail no instruction wrote.                     *)
(***************************************************************************)
C11_ResultFullyWritten == (dpc = "done" /\ dret = "ok") => loc = resultLength

(***************************************************************************)
(* Strings are sequences of character codes.  encoding/hex as the code     *)
(* uses it: DecodeString fails on an odd length or a character that is no  *)
(* hex digit (it accepts both cases); EncodeToString writes lower case.    *)
(***************************************************************************)
HexDigit(v) == IF v < 10 THEN 48 + v ELSE 87 + v

EncodeToString(bs) ==
    Flatten([i \in 1..Len(bs) |-> <<HexDigit(bs[i] \div 16), HexDigit(bs[i] % 16)>>])

FromHexChar(c) ==
    IF c \in 48..57 THEN c - 48
    ELSE IF c \in 97..102 THEN c - 87
    ELSE IF c \in 65..70 THEN c - 55
    ELSE -1

DecodeString(str) ==
    IF Len(str) % 2 = 1 \/ \E i \in 1..Len(str) : FromHexChar(str[i]) = -1
    THEN [err |-> TRUE, bytes |-> <<>>]
    ELSE [err   |-> FALSE,
          bytes |-> [i \in 1..(Len(str) \div 2) |->
                        16 * FromHexChar(str[2 * i - 1]) + FromHexChar(str[2 * i])]]

RECURSIVE Compare(_, _)
\* bytes.Compare: -1, 0 or 1, byte by byte, a proper prefix being smaller
Compare(a, b) ==
    IF a = <<>> THEN (IF b = <<>> THEN 0 ELSE -1)
    ELSE IF b = <<>> THEN 1
    ELSE IF Head(a) < Head(b) THEN -1
    ELSE IF Head(a) > Head(b) THEN 1
    ELSE Compare(Tail(a), Tail(b))

\* order.Uint32 (big endian) of a value below 2^31
Uint32(b) == b[1] * Pow2(24) + b[2] * 65536 + b[3] * 256 + b[4]

\* order.Uint32 of any four bytes, kept as bit 31 and the low 31 bits
Uint32Wide(b) == [b31 |-> b[1] \div 128, low |-> Uint32(<<b[1] % 128, b[2], b[3], b[4]>>)]

(***************************************************************************)
(* Pack.FindOffset (src/pack.go 116-154).  A step yields the next locals   *)
(* [ret, idBytes, size, cnt, lo, hi, loc, offset].                         *)
(***************************************************************************)
FindHalt(r) ==
    [ret |-> r, idBytes |-> <<>>, size |-> 0, cnt |-> 0, lo |-> 0, hi |-> 0,
     loc |-> 0, offset |-> NoOffset]

\* 4*id[0], a byte product: it wraps at 256
fanByteOffset(id) == (4 * id[1]) % 256

\* lines 117-132: the id decoded, size and the first probe
findOffsetBegin(ix, id) ==
    LET dec == DecodeString(id)
    IN  IF dec.err THEN FindHalt("hex")
        ELSE IF Len(ix) < 1032 THEN FindHalt("panic")              \* p.index[8:1032]
        ELSE IF Len(id) = 0 THEN FindHalt("panic")                 \* id[0]
        ELSE LET fan  == SubSeq(ix, 9, 1032)
                 size == Uint32(SubSeq(fan, 1021, 1024))
                 cnt  == Uint32(SubSeq(fan, fanByteOffset(id) + 1, fanByteOffset(id) + 4))
                 at   == 8 + 1024 + cnt * 20
             IN  IF at + 20 > Len(ix) THEN FindHalt("panic")       \* p.index[loc:loc+20]
                 ELSE [ret |-> "run", idBytes |-> dec.bytes, size |-> size, cnt |-> cnt,
                       lo |-> 0, hi |-> size, loc |-> at, offset |-> NoOffset]

\* suspect := p.index[loc : loc+20]
suspect(ix, st) == SubSeq(ix, st.loc + 1, st.loc + 20)

\* cmp := bytes.Compare(idBytes, suspect)
findCmp(ix, st) == Compare(st.idBytes, suspect(ix, st))

\* lines 134-146: one turn of the loop, cmp != 0
findOffsetNarrow(ix, st) ==
    LET lo2 == IF findCmp(ix, st) < 0 THEN st.lo ELSE st.cnt + 1
        hi2 == IF findCmp(ix, st) < 0 THEN st.cnt ELSE st.hi
    IN  IF lo2 >= hi2 THEN FindHalt("ErrNotExist")
        ELSE LET cnt2 == (lo2 + hi2) \div 2
                 at   == 8 + 1024 + cnt2 * 20
             IN  IF at + 20 > Len(ix) THEN FindHalt("panic")
                 ELSE [st EXCEPT !.lo = lo2, !.hi = hi2, !.cnt = cnt2, !.loc = at]

\* lines 148-153: the offset of the id matched, with no look at its high bit
findOffsetReturn(ix, st) ==
    LET n          == (st.loc - 1032) \div 20
        offsetBase == 1032 + 20 * st.size + 4 * st.size
    IN  IF offsetBase + 4 * n + 4 > Len(ix) THEN FindHalt("panic")
        ELSE [st EXCEPT !.ret = "ok",
                        !.offset = Uint32Wide(SubSeq(ix, offsetBase + 4 * n + 1,
                                                     offsetBase + 4 * n + 4))]

findOffsetStep(ix, st) ==
    IF findCmp(ix, st) # 0 THEN findOffsetNarrow(ix, st) ELSE findOffsetReturn(ix, st)

RECURSIVE findOffsetLoop(_, _)
findOffsetLoop(ix, st) ==
    IF st.ret # "run" THEN st ELSE findOffsetLoop(ix, findOffsetStep(ix, st))

\* FindOffset as a function of the index bytes and the id string
FindOffset(ix, id) == findOffsetLoop(ix, findOffsetBegin(ix, id))

(***************************************************************************)
(* A version-2 index file written from a table of ids (sorted ascending),  *)
(* crcs and offsets: header, 256-entry fan-out, ids, crcs, offsets and the *)
(* two trailing checksums.                                                 *)
(***************************************************************************)
indexHeader == <<255, 116, 79, 99, 0, 0, 0, 2>>

U32BE(n) == <<n \div Pow2(24), (n \div 65536) % 256, (n \div 256) % 256, n % 256>>

\* entry i of the fan-out: how many ids have a first byte <= i
FanOut(ids) ==
    Flatten([i \in 1..256 |-> U32BE(Cardinality({k \in 1..Len(ids) : ids[k][1] <= i - 1}))])

Trailer == [i \in 1..40 |-> 90]

IndexFile(t) ==
    indexHeader \o FanOut(t.ids) \o Flatten(t.ids) \o Flatten(t.crcs)
        \o Flatten(t.offs) \o Trailer

MaxIds == 3

\* an object id: 20 bytes
Id(b0, b1) == <<b0, b1>> \o [i \in 1..18 |-> 17]

IdUniverse ==
    { Id(16, 1), Id(16, 128), Id(32, 0), Id(62, 21), Id(166, 46), Id(166, 240) }

RECURSIVE SortIds(_)
\* the ids of S in ascending order
SortIds(S) ==
    IF S = {} THEN <<>>
    ELSE LET least == CHOOSE x \in S : \A y \in S : Compare(x, y) <= 0
         IN  <<least>> \o SortIds(S \ {least})

\* the offset of entry k; entry hb, if any, has bit 31 set
EntryOffset(k, hb) == IF k = hb THEN <<128, 0, 0, 12>> ELSE U32BE(12 + 16 * (k - 1))

IndexTables ==
    { [ids  |-> SortIds(S),
       crcs |-> [k \in 1..Cardinality(S) |-> crc],
       offs |-> [k \in 1..Cardinality(S) |-> EntryOffset(k, hb)]] :
          S \in {T \in SUBSET IdUniverse : Cardinality(T) <= MaxIds},
          crc \in {<<0, 0, 0, 0>>, <<255, 255, 255, 255>>},
          hb \in 0..MaxIds }

\* the ids asked for: every id of the universe in hex, and strings that are
\* no 40-character hex id: "", "1g", "102"
Queries ==
    {EncodeToString(x) : x \in IdUniverse} \cup {<<>>, <<49, 103>>, <<49, 48, 50>>}

(***************************************************************************)
(* FindOffset as a state machine.                                          *)
(***************************************************************************)
IdxInit ==
    /\ \E t \in IndexTables, q \in Queries :
          /\ ixsrc = t
          /\ index = IndexFile(t)
          /\ fid = q
    /\ fst = [ret |-> "none"]
    /\ ipc = "call"
    /\ iret = "none"
    /\ ioffset = NoOffset
    /\ DeltaIdle
    /\ RepoIdle
    /\ PackIdle

FindAssign(st) ==
    /\ fst' = st
    /\ ipc' = IF st.ret = "run" THEN "search" ELSE "done"
    /\ iret' = IF st.ret = "run" THEN "none" ELSE st.ret
    /\ ioffset' = st.offset
    /\ UNCHANGED <<ixsrc, index, fid>>
    /\ UNCHANGED <<deltaVars, repoVars, packVars>>

FindOffsetBegin ==
    /\ ipc = "call"
    /\ FindAssign(findOffsetBegin(index, fid))

FindOffsetNarrow ==
    /\ ipc = "search" /\ findCmp(index, fst) # 0
    /\ FindAssign(findOffsetStep(index, fst))

FindOffsetReturn ==
    /\ ipc = "search" /\ findCmp(index, fst) = 0
    /\ FindAssign(findOffsetStep(index, fst))

IdxNext ==
    \/ FindOffsetBegin
    \/ FindOffsetNarrow
    \/ FindOffsetReturn

SpecIdx == IdxInit /\ [][IdxNext]_vars

\* the id asked for is a 40-character lower-case hex id
IsHexId(str) == Len(str) = 40 /\ \A i \in 1..40 : str[i] \in (48..57) \cup (97..102)

\* the positions of the index at which the id asked for is stored
StoredAt(t, str) == {k \in 1..Len(t.ids) : EncodeToString(t.ids[k]) = str}

(***************************************************************************)
(* C1: on a valid version-2 index, for a 40-character lower-case hex id,   *)
(* FindOffset returns the offset table's value at the id's position when   *)
(* the id is stored, and the not-found error, never an offset, when it is  *)
(* not, whatever N and the id's first byte.                                *)
(***************************************************************************)
C1_FindOffsetFindsExactlyStored ==
    (ipc = "done" /\ IsHexId(fid))
        => /\ \A k \in StoredAt(ixsrc, fid) :
                 iret = "ok" /\ ioffset = Uint32Wide(ixsrc.offs[k])
           /\ StoredAt(ixsrc, fid) = {} => iret = "ErrNotExist"

(***************************************************************************)
(* C8: when FindOffset matches an id whose entry of the offset table has   *)
(* its high bit set, it fails with an unsupported-pack error and returns   *)
(* no offset.                                                              *)
(***************************************************************************)
C8_HighBitOffsetRejected ==
    (ipc = "done" /\ IsHexId(fid))
        => \A k \in StoredAt(ixsrc, fid) :
              ixsrc.offs[k][1] >= 128 => iret = "ErrUnsupportedPack"

(***************************************************************************)
(* The repository facade (src/repo.go).  Strings are sequences of          *)
(* character codes; the constants below spell the literals of the code.    *)
(***************************************************************************)
sHEAD == <<72, 69, 65, 68>>                 \* "HEAD"

sRefs == <<114, 101, 102, 115>>            \* "refs"

sHeads == <<104, 101, 97, 100, 115>>       \* "heads"

sTags == <<116, 97, 103, 115>>            \* "tags"

sObjects == <<111, 98, 106, 101, 99, 116, 115>>   \* "objects"

sRefColon == <<114, 101, 102, 58>>         \* "ref:"

\* r.Base, the repository directory: "g"
Base == <<103>>

\* refDirs (line 90)
refDirs == <<sHeads, sTags>>

IsSpace(c) == c \in {9, 10, 11, 12, 13, 32}

RECURSIVE TrimLeft(_)
TrimLeft(str) ==
    IF str # <<>> /\ IsSpace(Head(str)) THEN TrimLeft(Tail(str)) ELSE str

RECURSIVE TrimRight(_)
TrimRight(str) ==
    IF str # <<>> /\ IsSpace(str[Len(str)])
    THEN TrimRight(SubSeq(str, 1, Len(str) - 1)) ELSE str

\* strings.TrimSpace
TrimSpace(str) == TrimRight(TrimLeft(str))

RECURSIVE JoinPath(_)
\* filepath.Join of elements that are clean already: the non-empty ones, "/" between
JoinPath(parts) ==
    IF parts = <<>> THEN <<>>
    ELSE LET rest == JoinPath(Tail(parts))
         IN  IF Head(parts) = <<>> THEN rest
             ELSE IF rest = <<>> THEN Head(parts)
             ELSE Head(parts) \o <<47>> \o rest

RECURSIVE SplitFrom(_, _)
\* strings.Split(str, "/"), given the segment read so far
SplitFrom(str, seg) ==
    IF str = <<>> THEN <<seg>>
    ELSE IF Head(str) = 47 THEN <<seg>> \o SplitFrom(Tail(str), <<>>)
    ELSE SplitFrom(Tail(str), Append(seg, Head(str)))

Split(str) == SplitFrom(str, <<>>)

\* ioutil.ReadFile
ReadFile(fs, path) ==
    IF path \in DOMAIN fs THEN [err |-> FALSE, data |-> fs[path]]
    ELSE [err |-> TRUE, data |-> <<>>]

Ok(o) == [err |-> "", val |-> <<>>, obj |-> o]

OkVal(v) == [err |-> "", val |-> v, obj |-> NoObject]

Fail(e) == [err |-> e, val |-> <<>>, obj |-> NoObject]

(***************************************************************************)
(* Pack.readRaw (src/pack.go 195-261) over a pack p = [index, data, z].    *)
(* p.data[k] of the code is data[k + 1] here.  The recursion is kept as a  *)
(* stack of the entries that wait for their base, each [offset, i]; a step *)
(* yields the next [ret, phase, offset, stack, objType, objSize, body].    *)
(* zlib is held as a table: z[k] is what the stream that starts at offset  *)
(* k inflates to, and no stream starts where z has no entry.               *)
(***************************************************************************)
OBJ_COMMIT == 1
OBJ_TREE == 2
OBJ_BLOB == 3
OBJ_TAG == 4
OBJ_OFS_DELTA == 6
OBJ_REF_DELTA == 7

\* the deepest nesting of readRaw calls that is followed
MaxDepth == 4

RECURSIVE BitAndFrom(_, _, _)
BitAndFrom(a, m, j) ==
    IF j > 7 THEN 0
    ELSE (IF Bit(a, j) /\ Bit(m, j) THEN Pow2(j) ELSE 0) + BitAndFrom(a, m, j + 1)

\* a & m on bytes
BitAnd(a, m) == BitAndFrom(a, m, 0)

\* the other reading of line 197, the shift done first: objHeader & (0x71 >> 4)
objTypeShiftFirst(objHeader) == BitAnd(objHeader, 113 \div Pow2(4))

\* line 197: int(objHeader & 0x71 >> 4); & and >> bind alike, from the left
objTypeOf(objHeader) == BitAnd(objHeader, 113) \div Pow2(4)

RawHalt(r) == [RawIdle EXCEPT !.ret = r]

RECURSIVE readSize(_, _, _, _, _, _)
\* lines 203-208: the continuation bytes of the size
readSize(data, offset, i, shift, objHeader, objSize) ==
    IF BitAnd(objHeader, 128) = 0 THEN [panic |-> FALSE, i |-> i, v |-> objSize]
    ELSE IF offset + i + 1 >= Len(data) THEN [panic |-> TRUE, i |-> i, v |-> 0]
    ELSE LET h == data[offset + i + 2]
         IN  readSize(data, offset, i + 1, shift + 7, h,
                      objSize + BitAnd(h, 127) * Pow2(shift))

RECURSIVE readBaseOffset(_, _, _, _, _)
\* lines 217-221: the further bytes of the distance to the base
readBaseOffset(data, offset, i, b, baseOffset) ==
    IF BitAnd(b, 128) = 0 THEN [panic |-> FALSE, i |-> i, v |-> baseOffset]
    ELSE IF offset + i + 1 >= Len(data) THEN [panic |-> TRUE, i |-> i, v |-> 0]
    ELSE LET b2 == data[offset + i + 2]
         IN  readBaseOffset(data, offset, i + 1, b2,
                            (baseOffset + 1) * 128 + BitAnd(b2, 127))

\* p.readRaw(offset): the call
rawStart(offset) == [RawIdle EXCEPT !.ret = "run", !.phase = "down", !.offset = offset]

\* lines 227 and 240: readRaw calls itself for the base, the entry waits with
\* the type it read
rawCall(st, frame, objType, baseOffset) ==
    IF Len(st.stack) >= MaxDepth THEN RawHalt("overflow")
    ELSE [st EXCEPT !.stack = Append(st.stack, frame), !.objType = objType,
                    !.offset = baseOffset]

\* lines 246-250 of an entry that is no delta: its stream is opened
rawInflate(p, st, objType, objSize, at) ==
    IF at > Len(p.data) THEN RawHalt("panic")                      \* p.data[offset+i+1:]
    ELSE IF at \notin DOMAIN p.z THEN RawHalt("zlib")
    ELSE [st EXCEPT !.phase = "up", !.objType = objType, !.objSize = objSize,
                    !.body = p.z[at]]

\* lines 196-244: the header of the entry at st.offset, down to the call for
\* its base
readRawDown(p, st) ==
    IF st.offset >= Len(p.data) THEN RawHalt("panic")              \* p.data[offset]
    ELSE LET objHeader == p.data[st.offset + 1]
             objType   == objTypeOf(objHeader)
             sz        == readSize(p.data, st.offset, 0, 4, objHeader, BitAnd(objHeader, 15))
         IN  IF sz.panic THEN RawHalt("panic")
             ELSE IF objType = OBJ_OFS_DELTA
             THEN IF st.offset + sz.i + 1 >= Len(p.data) THEN RawHalt("panic")
                  ELSE LET b  == p.data[st.offset + sz.i + 2]
                           bo == readBaseOffset(p.data, st.offset, sz.i + 1, b, BitAnd(b, 127))
                       IN  IF bo.panic THEN RawHalt("panic")
                           ELSE IF bo.v > Len(p.data) \/ bo.v > st.offset
                           THEN RawHalt("ErrBadDelta")
                           ELSE rawCall(st, [offset |-> st.offset, i |-> bo.i], objType,
                                        st.offset - bo.v)
             ELSE IF objType = OBJ_REF_DELTA
             THEN IF st.offset + sz.i + 21 > Len(p.data) THEN RawHalt("panic")
                  ELSE LET baseId == EncodeToString(SubSeq(p.data, st.offset + sz.i + 2,
                                                           st.offset + sz.i + 21))
                           f      == FindOffset(p.index, baseId)           \* pack.go:235
                       IN  IF f.ret # "ok" THEN RawHalt(f.ret)
                           ELSE IF f.offset.b31 = 1 THEN RawHalt("panic")  \* p.data[offset]
                           ELSE rawCall(st, [offset |-> st.offset, i |-> sz.i + 20], objType,
                                        f.offset.low)
             ELSE rawInflate(p, st, objType, sz.v, st.offset + sz.i + 1)

\* lines 246-258 of a delta entry, its base at hand: applyDelta
readRawUp(p, st) ==
    LET frame == st.stack[Len(st.stack)]
        at    == frame.offset + frame.i + 1
    IN  IF at > Len(p.data) THEN RawHalt("panic")
        ELSE IF at \notin DOMAIN p.z THEN RawHalt("zlib")
        ELSE LET d == applyDelta(st.body, p.z[at])
             IN  IF d.ret # "ok" THEN RawHalt(d.ret)
                 ELSE [st EXCEPT !.stack = SubSeq(st.stack, 1, Len(st.stack) - 1),
                                 !.body = d.result, !.objSize = d.resultLength]

readRawStep(p, st) ==
    IF st.phase = "down" THEN readRawDown(p, st)
    ELSE IF st.stack # <<>> THEN readRawUp(p, st)
    ELSE [st EXCEPT !.ret = "ok"]                                  \* line 260

RECURSIVE readRawLoop(_, _)
readRawLoop(p, st) ==
    IF st.ret # "run" THEN st ELSE readRawLoop(p, readRawStep(p, st))

\* Pack.readRaw
readRaw(p, offset) == readRawLoop(p, rawStart(offset))

PackObject(type, size, body) == [NoObject EXCEPT !.Type = type, !.Size = size, !.Body = body]

\* Pack.readObject (pack.go 167-191), given what readRaw returned
readObject(raw) ==
    IF raw.ret # "ok" THEN Fail(raw.ret)
    ELSE IF raw.objType = OBJ_COMMIT THEN Ok(PackObject("commit", raw.objSize, raw.body))
    ELSE IF raw.objType = OBJ_TREE THEN Ok(PackObject("tree", raw.objSize, raw.body))
    ELSE IF raw.objType = OBJ_BLOB THEN Ok(PackObject("blob", raw.objSize, raw.body))
    ELSE Fail("ErrUnknownType")

\* Pack.LoadObject (pack.go 156-163)
PackFileLoadObject(p, id) ==
    LET f == FindOffset(p.index, id)
    IN  IF f.ret # "ok" THEN Fail(f.ret)
        ELSE IF f.offset.b31 = 1 THEN Fail("panic")                \* p.data[offset]
        ELSE readObject(readRaw(p, f.offset.low))

(***************************************************************************)
(* The loaders behind the Loader interface (repo.go 11-14).  The loose     *)
(* loader is LooseObject.LoadObject (src/loose.go 13-25) over the files of *)
(* the objects directory, each held as what ParseObject makes of it.  A    *)
(* pack is held here as what Pack.LoadObject (pack.go 156-163) answers for *)
(* the ids of its table, after FindOffset has decoded the id.              *)
(***************************************************************************)
LooseLoadObject(l, id) ==
    IF Len(id) < 2 THEN Fail("panic")                              \* id[:2]
    ELSE LET path == JoinPath(<<Base, sObjects, SubSeq(id, 1, 2), Drop(id, 2)>>)
         IN  IF path \notin DOMAIN l.dir THEN Fail("ErrNotExist")  \* *os.PathError
             ELSE l.dir[path]                                      \* ParseObject(f)

PackLoadObject(l, id) ==
    IF DecodeString(id).err THEN Fail("hex")
    ELSE IF Len(id) = 0 THEN Fail("panic")
    ELSE IF id \in DOMAIN l.table THEN l.table[id]
    ELSE Fail("ErrNotExist")

\* loader.LoadObject(id)
LoaderLoadObject(l, id) ==
    IF l.kind = "loose" THEN LooseLoadObject(l, id)
    ELSE IF l.kind = "packfile" THEN PackFileLoadObject(l, id)
    ELSE PackLoadObject(l, id)

\* lines 146-155, the loader at st.pos having answered r
loadObjectAnswered(st, r) ==
    IF r.err = "ErrNotExist"
    THEN [st EXCEPT !.pos = st.pos + 1, !.queried = Append(st.queried, st.pos)]
    ELSE [st EXCEPT !.ret = "done", !.queried = Append(st.queried, st.pos), !.res = r]

\* a loop that goes on to the next loader after any error
loadObjectTurnPastErrors(ls, id, st) ==
    IF st.pos > Len(ls) THEN [st EXCEPT !.ret = "done", !.res = Fail("ErrNotExist")]
    ELSE LET r == LoaderLoadObject(ls[st.pos], id)
             q == Append(st.queried, st.pos)
         IN  IF r.err # ""
             THEN [st EXCEPT !.pos = st.pos + 1, !.queried = q]
             ELSE [st EXCEPT !.ret = "done", !.queried = q, !.res = r]

\* Repo.LoadObject (repo.go 144-159), one turn of its range loop: the locals
\* are [ret, pos, queried, res]
loadObjectTurn(ls, id, st) ==
    IF st.pos > Len(ls) THEN [st EXCEPT !.ret = "done", !.res = Fail("ErrNotExist")]
    ELSE loadObjectAnswered(st, LoaderLoadObject(ls[st.pos], id))

RECURSIVE loadObjectLoop(_, _, _)
loadObjectLoop(ls, id, st) ==
    IF st.ret # "run" THEN st ELSE loadObjectLoop(ls, id, loadObjectTurn(ls, id, st))

LoadStart == [ret |-> "run", pos |-> 1, queried |-> <<>>, res |-> NoResult]

\* Repo.LoadObject
LoadObject(ls, id) == loadObjectLoop(ls, id, LoadStart).res

(***************************************************************************)
(* Repo.ResolveRef (repo.go 95-126) and Repo.resolveIndirect (128-141).    *)
(***************************************************************************)
RECURSIVE ResolveRef(_, _, _)
RECURSIVE resolveIndirect(_, _, _)

resolveIndirect(fs, ls, path) ==
    LET f == ReadFile(fs, path)
    IN  IF f.err THEN Fail("io")
        ELSE LET id == TrimSpace(f.data)
             IN  IF Len(id) < 4 THEN Fail("panic")                 \* id[0:4]
                 ELSE IF SubSeq(id, 1, 4) = sRefColon
                      THEN ResolveRef(fs, ls, TrimSpace(Drop(id, 4)))
                      ELSE OkVal(id)

\* lines 100-109: the first of refs/heads/<ref>, refs/tags/<ref> that can be read
RECURSIVE resolveInDirs(_, _, _)
resolveInDirs(fs, ref, dirs) ==
    IF dirs = <<>> THEN Fail("none")
    ELSE LET f == ReadFile(fs, JoinPath(<<Base, sRefs, Head(dirs), ref>>))
         IN  IF f.err THEN resolveInDirs(fs, ref, Tail(dirs))
             ELSE OkVal(TrimSpace(f.data))

\* lines 117-125: a raw id is taken as it is when it loads as a commit
resolveRaw(ls, ref) ==
    LET o == LoadObject(ls, ref)
    IN  IF o.err = "panic" THEN Fail("panic")
        ELSE IF o.err = "" /\ o.obj.Type = "commit" THEN OkVal(ref)
        ELSE Fail("ErrUnknownRef")

ResolveRef(fs, ls, ref) ==
    IF ref = sHEAD THEN resolveIndirect(fs, ls, JoinPath(<<Base, sHEAD>>))
    ELSE LET d == resolveInDirs(fs, ref, refDirs)
         IN  IF d.err = "" THEN d
             ELSE LET f == ReadFile(fs, JoinPath(<<Base, ref>>))
                  IN  IF ~f.err THEN OkVal(TrimSpace(f.data))
                      ELSE resolveRaw(ls, ref)

(***************************************************************************)
(* Repo.Resolve (repo.go 166-231).  Object.Commit and Object.Tree          *)
(* (src/object.go) are taken to parse the object they are given: a commit  *)
(* carries its tree id, a tree its entries by name.                        *)
(***************************************************************************)
\* a walk that looks the last segment up in the tree it starts from
resolveWalkInRoot(ls, entries, segments) ==
    IF segments[Len(segments)] \in DOMAIN entries
    THEN OkVal(entries[segments[Len(segments)]])
    ELSE Fail("ErrNotExist")

RECURSIVE resolveWalk(_, _, _)
\* lines 202-230: the segments but the last are trees to step into
resolveWalk(ls, entries, segments) ==
    IF Len(segments) = 1
    THEN IF segments[1] \in DOMAIN entries THEN OkVal(entries[segments[1]])
         ELSE Fail("ErrNotExist")
    ELSE IF Head(segments) \notin DOMAIN entries THEN Fail("ErrNotExist")
    ELSE LET o == LoadObject(ls, entries[Head(segments)])
         IN  IF o.err # "" THEN Fail(o.err)
             ELSE IF o.obj.Type # "tree" THEN Fail("ErrNotTree")
             ELSE resolveWalk(ls, o.obj.Entries, Tail(segments))

Resolve(fs, ls, ref, path) ==
    LET r == ResolveRef(fs, ls, ref)
    IN  IF r.err # "" THEN Fail(r.err)
        ELSE LET o == LoadObject(ls, r.val)
             IN  IF o.err # "" THEN Fail(o.err)
                 ELSE IF o.obj.Type # "commit" THEN Fail("ErrNotCommit")
                 ELSE LET t == LoadObject(ls, o.obj.Tree)
                      IN  IF t.err # "" THEN Fail(t.err)
                          ELSE IF t.obj.Type # "tree" THEN Fail("ErrNotTree")
                          ELSE resolveWalk(ls, t.obj.Entries, Split(path))

(***************************************************************************)
(* Repositories to run the facade on.  Object ids are 40-character hex strings;   *)
(* every loader is a record [kind, dir, table].                            *)
(***************************************************************************)
\* a 40-character id that begins with the four given
HexId(prefix) == prefix \o [i \in 1..36 |-> 48]

idC1 == HexId(<<99, 49, 48, 48>>)     \* "c1000...0", a commit

idC2 == HexId(<<99, 50, 48, 48>>)     \* "c2000...0", a commit

idE1 == HexId(<<101, 49, 48, 48>>)    \* "e1000...0", a tree

idE2 == HexId(<<101, 50, 48, 48>>)    \* "e2000...0", a tree

idB1 == HexId(<<98, 49, 48, 48>>)     \* "b1000...0", a blob

idB2 == HexId(<<98, 50, 48, 48>>)     \* "b2000...0", a blob

idNone == HexId(<<102, 102, 48, 48>>) \* "ff000...0", stored nowhere

sM == <<109>>               \* "m"

sN == <<110>>               \* "n"

sZZ == <<122, 122>>         \* "zz"

CommitObj(t) == [NoObject EXCEPT !.Type = "commit", !.Tree = t]

TreeObj(e) == [NoObject EXCEPT !.Type = "tree", !.Entries = e]

BlobObj == [NoObject EXCEPT !.Type = "blob"]

Nothing == [x \in {} |-> x]

\* the file of a loose object: objects/<id[:2]>/<id[2:]>
ObjPath(id) == JoinPath(<<Base, sObjects, SubSeq(id, 1, 2), Drop(id, 2)>>)

\* a loader: the loose one with its directory; a pack given by its answers;
\* a pack given by its files (index, data, and what the zlib streams of data
\* inflate to, by the offset at which a stream starts)
NoLoader ==
    [kind |-> "", dir |-> Nothing, table |-> Nothing, index |-> <<>>, data |-> <<>>,
     z |-> Nothing]

Loose(d) == [NoLoader EXCEPT !.kind = "loose", !.dir = d]

PackOf(t) == [NoLoader EXCEPT !.kind = "pack", !.table = t]

One(k, v) == [x \in {k} |-> v]

\* initLoaders (repo.go 65-88): the loose loader, then one loader per .idx file
initLoaders(d, packs) == <<Loose(d)>> \o packs

MaxPacks == 2

LooseDirs(id) ==
    {Nothing, One(ObjPath(id), Ok(CommitObj(idE1))), One(ObjPath(id), Fail("zlib"))}

PackLoaders(id) ==
    {PackOf(Nothing), PackOf(One(id, Ok(BlobObj))), PackOf(One(id, Fail("ErrUnknownType"))),
     PackOf(One(id, Fail("ErrNotExist")))}

Call(op, a1, a2) == [op |-> op, a1 |-> a1, a2 |-> a2]

LoadScenarios ==
    { [files |-> Nothing, loaders |-> initLoaders(d, packs), call |-> Call("LoadObject", id, <<>>)] :
        d \in LooseDirs(idC1), packs \in SeqsUpTo(PackLoaders(idC1), MaxPacks),
        id \in {idC1, idNone, sM, sZZ} }

\* the function of a set of <<key, value>> pairs with distinct keys
Files(pairs) == [k \in {p[1] : p \in pairs} |-> (CHOOSE p \in pairs : p[1] = k)[2]]

\* a file that is absent or holds one of the contents
FileChoices(path, contents) == {{}} \cup {{<<path, c>>} : c \in contents}

Line(str) == str \o <<10>>

sRefsHeadsM == JoinPath(<<sRefs, sHeads, sM>>)   \* "refs/heads/m"

sRefsHeadsN == JoinPath(<<sRefs, sHeads, sN>>)   \* "refs/heads/n"

RefTo(ref) == sRefColon \o <<32>> \o ref         \* "ref: <ref>"

RefFileSystems ==
    { Files(h \cup m \cup n \cup t \cup b) :
        h \in FileChoices(JoinPath(<<Base, sHEAD>>),
                          {Line(RefTo(sRefsHeadsM)), Line(idC1), Line(<<>>)}),
        m \in FileChoices(JoinPath(<<Base, sRefsHeadsM>>), {Line(idC1), Line(RefTo(sRefsHeadsN))}),
        n \in FileChoices(JoinPath(<<Base, sRefsHeadsN>>), {Line(idC2)}),
        t \in FileChoices(JoinPath(<<Base, sRefs, sTags, sM>>), {Line(idB1)}),
        b \in FileChoices(JoinPath(<<Base, sM>>), {idC2}) }

RefStore ==
    initLoaders(Files({<<ObjPath(idC1), Ok(CommitObj(idE1))>>, <<ObjPath(idB1), Ok(BlobObj)>>}),
                <<PackOf(One(idC2, Ok(CommitObj(idE1))))>>)

RefNames == {sHEAD, sM, sN, sRefsHeadsM, idC1, idC2, idB1, idNone, sZZ}

RefScenarios ==
    { [files |-> fs, loaders |-> RefStore, call |-> Call("ResolveRef", ref, <<>>)] :
        fs \in RefFileSystems, ref \in RefNames }

sA == <<97>>      \* "a"

sD == <<100>>     \* "d"

idBad == HexId(<<101, 51, 48, 48>>)   \* "e3000...0", an object that does not inflate

\* the objects of a repository whose commit c100 has the tree root, and whose
\* tree e100 has the file "a" and, under "d", the object sub
Objects(root, sub) ==
    {<<idC1, Ok(CommitObj(root))>>, <<idB1, Ok(BlobObj)>>, <<idB2, Ok(BlobObj)>>,
     <<idE1, Ok(TreeObj(Files({<<sA, idB1>>, <<sD, sub>>})))>>,
     <<idE2, Ok(TreeObj(One(sA, idB2)))>>, <<idBad, Fail("zlib")>>}

AsLoose(objs) == Files({<<ObjPath(o[1]), o[2]>> : o \in objs})

IsTree(o) == o[2].err = "" /\ o[2].obj.Type = "tree"

\* where the objects are kept: all loose, all in a pack, or the trees in a pack
Stores(objs) ==
    {initLoaders(AsLoose(objs), <<>>), initLoaders(Nothing, <<PackOf(Files(objs))>>),
     initLoaders(AsLoose({o \in objs : ~IsTree(o)}), <<PackOf(Files({o \in objs : IsTree(o)}))>>)}

ResolveFileSystems ==
    { Files({<<JoinPath(<<Base, sHEAD>>), Line(RefTo(sRefsHeadsM))>>,
             <<JoinPath(<<Base, sRefsHeadsM>>), Line(target)>>}) : target \in {idC1, idB1, idNone} }

ResolvePaths ==
    {sA, sD, <<120>>, <<>>, JoinPath(<<sD, sA>>), JoinPath(<<sA, sA>>), JoinPath(<<sD, <<120>>>>),
     <<47>> \o sA, sD \o <<47>>, JoinPath(<<sD, sD, sA>>)}

ResolveScenarios ==
    { [files |-> fs, loaders |-> ls, call |-> Call("Resolve", ref, path)] :
        fs \in ResolveFileSystems,
        ls \in UNION {Stores(Objects(root, sub)) :
                        root \in {idE1, idB1, idNone}, sub \in {idE2, idB2, idNone, idBad}},
        ref \in {sHEAD, sM, idC1}, path \in ResolvePaths }

RepoScenarios == LoadScenarios \cup RefScenarios \cup ResolveScenarios

(***************************************************************************)
(* The facade as a state machine: a call of LoadObject runs its loop one   *)
(* loader at a time; ResolveRef and Resolve run to their return.           *)
(***************************************************************************)
RepoInit ==
    /\ \E sc \in RepoScenarios :
         /\ files = sc.files
         /\ loaders = sc.loaders
         /\ rcall = sc.call
    /\ rpc = "call"
    /\ lpos = 1
    /\ lqueried = <<>>
    /\ rret = NoResult
    /\ DeltaIdle
    /\ IdxIdle
    /\ PackIdle

LoadState == [ret |-> "run", pos |-> lpos, queried |-> lqueried, res |-> rret]

LoadAssign(st) ==
    /\ rpc' = IF st.ret = "run" THEN "call" ELSE "done"
    /\ lpos' = st.pos
    /\ lqueried' = st.queried
    /\ rret' = st.res
    /\ UNCHANGED <<files, loaders, rcall>>
    /\ UNCHANGED <<deltaVars, idxVars, psrc>>

\* lines 145-156: the next loader is asked
LoadObjectQuery ==
    /\ rpc = "call"
    /\ rcall.op = "LoadObject"
    /\ lpos <= Len(loaders)
    /\ loaders[lpos].kind # "packfile"
    /\ LoadAssign(loadObjectTurn(loaders, rcall.a1, LoadState))
    /\ UNCHANGED <<pst, pret>>

\* line 158: no loader is left
LoadObjectExhausted ==
    /\ rpc = "call"
    /\ rcall.op = "LoadObject"
    /\ lpos > Len(loaders)
    /\ LoadAssign(loadObjectTurn(loaders, rcall.a1, LoadState))
    /\ UNCHANGED <<pst, pret>>

CallResolveRef ==
    /\ rpc = "call"
    /\ rcall.op = "ResolveRef"
    /\ rret' = ResolveRef(files, loaders, rcall.a1)
    /\ rpc' = "done"
    /\ UNCHANGED <<files, loaders, rcall, lpos, lqueried>>
    /\ UNCHANGED <<deltaVars, idxVars, packVars>>

CallResolve ==
    /\ rpc = "call"
    /\ rcall.op = "Resolve"
    /\ rret' = Resolve(files, loaders, rcall.a1, rcall.a2)
    /\ rpc' = "done"
    /\ UNCHANGED <<files, loaders, rcall, lpos, lqueried>>
    /\ UNCHANGED <<deltaVars, idxVars, packVars>>

RepoNext ==
    \/ LoadObjectQuery
    \/ LoadObjectExhausted
    \/ CallResolveRef
    \/ CallResolve

SpecRepo == RepoInit /\ [][RepoNext]_vars

(***************************************************************************)
(* What the loaders hold, said without the loop: the answer of the first   *)
(* loader that has anything but "not found" to say about the id.           *)
(***************************************************************************)
Answering(ls, id) == {k \in 1..Len(ls) : LoaderLoadObject(ls[k], id).err # "ErrNotExist"}

FirstAnswering(ls, id) == CHOOSE k \in Answering(ls, id) : \A j \in Answering(ls, id) : k <= j

Stored(ls, id) ==
    IF Answering(ls, id) = {} THEN Fail("ErrNotExist")
    ELSE LoaderLoadObject(ls[FirstAnswering(ls, id)], id)

UpTo(n) == [k \in 1..n |-> k]

(***************************************************************************)
(* C2: Repo.LoadObject asks the loaders in registration order, the loose   *)
(* loader first and then each pack.  It returns the object of the first    *)
(* loader that succeeds; "not found" from a loader moves on to the next;   *)
(* the first other error is returned at once and no later loader is        *)
(* asked; it returns "not found" exactly when every loader said so.        *)
(***************************************************************************)
C2_LoadObjectFirstAnswer ==
    (rcall.op = "LoadObject" /\ rpc = "done") =>
        /\ loaders[1].kind = "loose"
        /\ \A k \in 2..Len(loaders) : loaders[k].kind \in {"pack", "packfile"}
        /\ rret = Stored(loaders, rcall.a1)
        /\ lqueried = IF Answering(loaders, rcall.a1) = {} THEN UpTo(Len(loaders))
                      ELSE UpTo(FirstAnswering(loaders, rcall.a1))
        /\ (rret.err = "ErrNotExist") <=>
               (\A k \in 1..Len(loaders) : LoaderLoadObject(loaders[k], rcall.a1).err = "ErrNotExist")

\* the loose loader has no such object, the first pack fails to read it, and
\* the second pack, which holds it, is never asked
C2_Witness ==
    /\ rcall.op = "LoadObject" /\ rpc = "done"
    /\ Len(loaders) = 3
    /\ LoaderLoadObject(loaders[1], rcall.a1).err = "ErrNotExist"
    /\ LoaderLoadObject(loaders[2], rcall.a1).err = "ErrUnknownType"
    /\ LoaderLoadObject(loaders[3], rcall.a1).err = ""
    /\ rret.err = "ErrUnknownType"
    /\ lqueried = <<1, 2>>

(***************************************************************************)
(* C4: for a name other than "HEAD", Repo.ResolveRef returns the trimmed   *)
(* content of the first file that exists among refs/heads/<name>,          *)
(* refs/tags/<name> and <base>/<name>; when none exists it returns the     *)
(* name itself if and only if Repo.LoadObject(name) succeeds with a        *)
(* commit, and otherwise fails with "unknown ref".                         *)
(***************************************************************************)
RefCandidates(ref) ==
    <<JoinPath(<<Base, sRefs, sHeads, ref>>), JoinPath(<<Base, sRefs, sTags, ref>>),
      JoinPath(<<Base, ref>>)>>

C4_ResolveRefByName ==
    (rcall.op = "ResolveRef" /\ rpc = "done" /\ rcall.a1 # sHEAD) =>
        LET cands == RefCandidates(rcall.a1)
            present == {k \in 1..3 : cands[k] \in DOMAIN files}
            first == CHOOSE k \in present : \A j \in present : k <= j
            o == Stored(loaders, rcall.a1)
        IN  IF present # {} THEN rret = OkVal(TrimSpace(files[cands[first]]))
            ELSE IF o.err = "" /\ o.obj.Type = "commit" THEN rret = OkVal(rcall.a1)
            ELSE rret = Fail("ErrUnknownRef")

(***************************************************************************)
(* C5: ResolveRef("HEAD") follows symbolic references to the end: for      *)
(* every finite chain HEAD -> "ref: p1" -> ... -> a file holding an object *)
(* id, whatever its length, it returns that id, and it never returns a     *)
(* string that begins with "ref:".                                         *)
(***************************************************************************)
MaxChain == 3

IsSymbolic(str) == Len(str) >= 4 /\ SubSeq(str, 1, 4) = sRefColon

RECURSIVE ChainEnd(_, _, _)
\* the object id at the end of the chain of files that starts at path
ChainEnd(fs, path, fuel) ==
    IF fuel = 0 \/ path \notin DOMAIN fs THEN [ok |-> FALSE, id |-> <<>>]
    ELSE LET content == TrimSpace(fs[path])
         IN  IF IsSymbolic(content)
             THEN ChainEnd(fs, JoinPath(<<Base, TrimSpace(Drop(content, 4))>>), fuel - 1)
             ELSE [ok |-> IsHexId(content), id |-> content]

C5_HeadChainFollowed ==
    (rcall.op = "ResolveRef" /\ rpc = "done" /\ rcall.a1 = sHEAD) =>
        LET end == ChainEnd(files, JoinPath(<<Base, sHEAD>>), MaxChain)
        IN  /\ end.ok => rret = OkVal(end.id)
            /\ rret.err = "" => ~IsSymbolic(rret.val)

(***************************************************************************)
(* C6: Repo.Resolve(ref, path) resolves ref, requires the object it names  *)
(* to be a commit and the commit's tree to be a tree, splits path on "/",  *)
(* requires every segment but the last to name an entry whose object is a  *)
(* tree, and returns the id recorded for the last segment in the last tree *)
(* reached.  A missing entry gives "not found", an intermediate object     *)
(* that is no tree gives "object is not a tree".                           *)
(***************************************************************************)
SlashesOf(path) == {i \in 1..Len(path) : path[i] = 47}

\* the cuts of a path: before it, at each slash in order, and after it
CutAt(path, k) ==
    IF k = 0 THEN 0
    ELSE IF k > Cardinality(SlashesOf(path)) THEN Len(path) + 1
    ELSE CHOOSE i \in SlashesOf(path) : Cardinality({j \in SlashesOf(path) : j < i}) = k - 1

Segments(path) ==
    [k \in 1..(Cardinality(SlashesOf(path)) + 1) |->
        SubSeq(path, CutAt(path, k - 1) + 1, CutAt(path, k) - 1)]

RECURSIVE TreeAfter(_, _, _, _)
\* the tree reached from root by the first k segments
TreeAfter(ls, root, segs, k) ==
    IF k = 0 THEN [err |-> "", entries |-> root]
    ELSE LET before == TreeAfter(ls, root, segs, k - 1)
         IN  IF before.err # "" THEN before
             ELSE IF segs[k] \notin DOMAIN before.entries
                  THEN [err |-> "ErrNotExist", entries |-> <<>>]
             ELSE LET o == Stored(ls, before.entries[segs[k]])
                  IN  IF o.err # "" THEN [err |-> o.err, entries |-> <<>>]
                      ELSE IF o.obj.Type # "tree" THEN [err |-> "ErrNotTree", entries |-> <<>>]
                      ELSE [err |-> "", entries |-> o.obj.Entries]

packHeader == <<80, 65, 67, 75, 0, 0, 0, 2>>   \* "PACK\x00\x00\x00\x02"

Plain(id, type, body) ==
    [id |-> id, kind |-> "plain", type |-> type, base |-> 0, baseId |-> <<>>,
     body |-> body, ops |-> <<>>]

OfsDelta(id, baseAt, ops) ==
    [id |-> id, kind |-> "ofs", type |-> OBJ_OFS_DELTA, base |-> baseAt, baseId |-> <<>>,
     body |-> <<>>, ops |-> ops]

RefDelta(id, baseId, ops) ==
    [id |-> id, kind |-> "ref", type |-> OBJ_REF_DELTA, base |-> 0, baseId |-> baseId,
     body |-> <<>>, ops |-> ops]

\* where the id is kept: the <<pack, position>> pairs
Places(world, id) ==
    UNION { {<<a, k>> : k \in {j \in 1..Len(world[a].entries) : world[a].entries[j].id = id}} :
              a \in 1..Len(world) }

\* the place of the base of the entry at place pl, <<0, 0>> when it has none
BasePlace(world, pl) ==
    LET e == world[pl[1]].entries[pl[2]]
    IN  IF e.kind = "ofs" THEN <<pl[1], e.base>>
        ELSE IF e.kind = "ref" /\ Places(world, e.baseId) # {}
             THEN CHOOSE q \in Places(world, e.baseId) : TRUE
        ELSE <<0, 0>>

RECURSIVE BodyAt(_, _)
\* the body of the object at a place: a delta's instructions read on the
\* body of its base
BodyAt(world, pl) ==
    LET e == world[pl[1]].entries[pl[2]]
    IN  IF e.kind = "plain" THEN e.body
        ELSE Interpret(BodyAt(world, BasePlace(world, pl)), e.ops)

RECURSIVE RootTypeAt(_, _)
\* the type code of the entry at the end of the chain of bases
RootTypeAt(world, pl) ==
    LET e == world[pl[1]].entries[pl[2]]
    IN  IF e.kind = "plain" THEN e.type ELSE RootTypeAt(world, BasePlace(world, pl))

\* the first byte (continuation bit, type, low four bits of the size) and
\* the further bytes of the size
EntryHeader(type, size) ==
    IF size < 16 THEN <<16 * type + size>>
    ELSE <<128 + 16 * type + (size % 16)>> \o EncodeVarint(size \div 16)

RECURSIVE OfsPrefix(_)
\* the leading bytes of the distance to the base, each standing for one more
OfsPrefix(n) ==
    IF n = 0 THEN <<>> ELSE OfsPrefix((n - 1) \div 128) \o <<128 + ((n - 1) % 128)>>

EncodeBaseOffset(n) == OfsPrefix(n \div 128) \o <<n % 128>>

\* a zlib stream as it lies in the file: the two bytes of its header
ZStream == <<120, 156>>

\* what the stream of the entry inflates to: the body, or the delta
Payload(world, pl) ==
    LET e == world[pl[1]].entries[pl[2]]
    IN  IF e.kind = "plain" THEN e.body
        ELSE EncodeDelta(Len(BodyAt(world, BasePlace(world, pl))), TotalLength(e.ops), e.ops)

RECURSIVE EntryOffsetIn(_, _)
RECURSIVE EntryPrefix(_, _)

\* the bytes of an entry before its stream
EntryPrefix(world, pl) ==
    LET e == world[pl[1]].entries[pl[2]]
        h == EntryHeader(e.type, Len(Payload(world, pl)))
    IN  IF e.kind = "ofs"
        THEN h \o EncodeBaseOffset(EntryOffsetIn(world, pl) - EntryOffsetIn(world, <<pl[1], e.base>>))
        ELSE IF e.kind = "ref" THEN h \o e.baseId
        ELSE h

\* the offset of an entry: after the 12 bytes of header and count and the
\* entries before it
EntryOffsetIn(world, pl) ==
    IF pl[2] = 1 THEN 12
    ELSE EntryOffsetIn(world, <<pl[1], pl[2] - 1>>)
            + Len(EntryPrefix(world, <<pl[1], pl[2] - 1>>)) + Len(ZStream)

StreamOffset(world, pl) == EntryOffsetIn(world, pl) + Len(EntryPrefix(world, pl))

DataFile(world, a) ==
    packHeader \o U32BE(Len(world[a].entries))
        \o Flatten([k \in 1..Len(world[a].entries) |-> EntryPrefix(world, <<a, k>>) \o ZStream])
        \o [i \in 1..20 |-> 90]

Inflated(world, a) ==
    Files({<<StreamOffset(world, <<a, k>>), Payload(world, <<a, k>>)>> :
              k \in 1..Len(world[a].entries)})

\* the table of the pack's index: the ids in ascending order, each with the
\* offset of its entry
IndexTable(world, a) ==
    LET es  == world[a].entries
        ids == SortIds({es[k].id : k \in 1..Len(es)})
        at(id) == CHOOSE k \in 1..Len(es) : es[k].id = id
    IN  [ids  |-> ids,
         crcs |-> [k \in 1..Len(ids) |-> world[a].crc],
         offs |-> [k \in 1..Len(ids) |-> U32BE(EntryOffsetIn(world, <<a, at(ids[k])>>))]]

PackFile(world, a) ==
    [NoLoader EXCEPT !.kind = "packfile", !.index = IndexFile(IndexTable(world, a)),
                     !.data = DataFile(world, a), !.z = Inflated(world, a)]

(***************************************************************************)
(* Repositories with packs: one pack that holds a chain of deltas over a   *)
(* plain root, and two packs of which one holds a ref-delta and the other  *)
(* its base.                                                               *)
(***************************************************************************)
MaxDeltas == 2

PackIds == {Id(16, 1), Id(16, 128), Id(62, 21), Id(166, 46)}

RootBody == <<10, 11, 12>>

\* the delta at depth k of a chain: the last two bytes of the root; then two
\* new bytes and the first byte of the base
ChainOps(k) ==
    IF k = 1 THEN <<Copy(17, <<1, 2>>)>> ELSE <<Insert(<<5, 6>>), Copy(16, <<1>>)>>

\* a root of the type and a delta for each kind, each on the entry before it
ChainEntries(ids, kinds, type) ==
    <<Plain(ids[1], type, RootBody)>> \o
        [k \in 1..Len(kinds) |->
            IF kinds[k] = "ofs" THEN OfsDelta(ids[k + 1], k, ChainOps(k))
            ELSE RefDelta(ids[k + 1], ids[k], ChainOps(k))]

Distinct(ss) == \A i, j \in 1..Len(ss) : ss[i] = ss[j] => i = j

CrcChoices == {<<0, 0, 0, 0>>, <<255, 255, 255, 255>>}

ChainWorlds ==
    { <<[crc |-> c, entries |-> ChainEntries(in[1], in[2], t)]>> :
        in \in {x \in SeqsUpTo(PackIds, MaxDeltas + 1) \X SeqsUpTo({"ofs", "ref"}, MaxDeltas) :
                    Len(x[1]) = Len(x[2]) + 1 /\ Len(x[2]) >= 1 /\ Distinct(x[1])},
        t \in {OBJ_COMMIT, OBJ_TREE, OBJ_BLOB, OBJ_TAG}, c \in CrcChoices }

\* a pack with a ref-delta x on y, a pack with y, in either order
TwoPackWorlds ==
    UNION { { <<[crc |-> c, entries |-> <<RefDelta(in[1], in[2], ChainOps(1))>>],
              [crc |-> c, entries |-> <<Plain(in[2], t, RootBody)>>]>>,
            <<[crc |-> c, entries |-> <<Plain(in[2], t, RootBody)>>],
              [crc |-> c, entries |-> <<RefDelta(in[1], in[2], ChainOps(1))>>]>> } :
        in \in {x \in PackIds \X PackIds : x[1] # x[2]},
        t \in {OBJ_COMMIT, OBJ_TREE, OBJ_BLOB}, c \in CrcChoices }

PackScenarios ==
    { [world |-> w,
       loaders |-> initLoaders(Nothing, [a \in 1..Len(w) |-> PackFile(w, a)]),
       call |-> Call("LoadObject", EncodeToString(id), <<>>)] :
        w \in ChainWorlds \cup TwoPackWorlds, id \in PackIds }

(***************************************************************************)
(* Repo.LoadObject over packs read from their files: a pack's LoadObject   *)
(* runs readRaw one entry at a time, and its answer goes to the loop of    *)
(* Repo.LoadObject.                                                        *)
(***************************************************************************)
PackInit ==
    /\ \E sc \in PackScenarios :
         /\ psrc = sc.world
         /\ loaders = sc.loaders
         /\ rcall = sc.call
    /\ files = Nothing
    /\ rpc = "call"
    /\ lpos = 1
    /\ lqueried = <<>>
    /\ rret = NoResult
    /\ pst = RawIdle
    /\ pret = [pack |-> 0, res |-> NoResult]
    /\ DeltaIdle
    /\ IdxIdle

\* the pack at lpos returns r to Repo.LoadObject (repo.go 146-155)
PackReturn(r) ==
    /\ pret' = [pack |-> lpos, res |-> r]
    /\ pst' = RawIdle
    /\ LoadAssign(loadObjectAnswered(LoadState, r))

\* readRaw goes on, or an error of it is returned
RawAssign(st) ==
    IF st.ret = "run"
    THEN /\ pst' = st
         /\ rpc' = "pack"
         /\ UNCHANGED <<files, loaders, rcall, lpos, lqueried, rret, psrc, pret>>
         /\ UNCHANGED <<deltaVars, idxVars>>
    ELSE PackReturn(Fail(st.ret))

\* pack.go 156-162 and 168: FindOffset, and readRaw is entered at the offset
PackLoadObjectBegin ==
    /\ rpc = "call"
    /\ rcall.op = "LoadObject"
    /\ lpos <= Len(loaders)
    /\ loaders[lpos].kind = "packfile"
    /\ LET f == FindOffset(loaders[lpos].index, rcall.a1)
       IN  IF f.ret # "ok" THEN PackReturn(Fail(f.ret))
           ELSE IF f.offset.b31 = 1 THEN PackReturn(Fail("panic"))
           ELSE RawAssign(rawStart(f.offset.low))

\* pack.go 196-244: an entry's header; a delta calls readRaw for its base
ReadRawDescend ==
    /\ rpc = "pack"
    /\ pst.phase = "down"
    /\ RawAssign(readRawStep(loaders[lpos], pst))

\* pack.go 246-260: a delta is applied to the base that was returned
ReadRawApply ==
    /\ rpc = "pack"
    /\ pst.phase = "up" /\ pst.stack # <<>>
    /\ RawAssign(readRawStep(loaders[lpos], pst))

\* pack.go 260 and 169-190: readRaw returns to readObject
ReadObjectReturn ==
    /\ rpc = "pack"
    /\ pst.phase = "up" /\ pst.stack = <<>>
    /\ PackReturn(readObject(readRawStep(loaders[lpos], pst)))

PackNext ==
    \/ LoadObjectQuery
    \/ LoadObjectExhausted
    \/ PackLoadObjectBegin
    \/ ReadRawDescend
    \/ ReadRawApply
    \/ ReadObjectReturn

SpecPack == PackInit /\ [][PackNext]_vars

TypeName(code) ==
    IF code = OBJ_COMMIT THEN "commit"
    ELSE IF code = OBJ_TREE THEN "tree"
    ELSE IF code = OBJ_BLOB THEN "blob"
    ELSE "tag"

\* the entry at a place
EntryAt(world, pl) == world[pl[1]].entries[pl[2]]

RECURSIVE ChainInPack(_, _)
\* the bases of the entry, down to the root, are entries of its own pack
ChainInPack(world, pl) ==
    \/ EntryAt(world, pl).kind = "plain"
    \/ /\ BasePlace(world, pl)[1] = pl[1]
       /\ ChainInPack(world, BasePlace(world, pl))

\* the id asked for, in bytes
AskedId == DecodeString(rcall.a1).bytes

(***************************************************************************)
(* C3: for every id stored in a valid pack as a deltified entry, with a    *)
(* chain of ofs-delta and ref-delta steps of any depth down to a root that *)
(* is no delta, Pack.LoadObject(id) returns an object whose type is that   *)
(* of the root, whose Size is the result length of the entry's own delta,  *)
(* and whose body has Size bytes.  (Roots are commits, trees and blobs: a  *)
(* tag is answered with "unknown type" where the Object is made.)          *)
(***************************************************************************)
C3_DeltaChainLoads ==
    \A pl \in Places(psrc, AskedId) :
        ( /\ pret.pack = pl[1] + 1
          /\ EntryAt(psrc, pl).kind # "plain"
          /\ ChainInPack(psrc, pl)
          /\ RootTypeAt(psrc, pl) \in {OBJ_COMMIT, OBJ_TREE, OBJ_BLOB} )
        => /\ pret.res.err = ""
           /\ pret.res.obj.Type = TypeName(RootTypeAt(psrc, pl))
           /\ pret.res.obj.Size = TotalLength(EntryAt(psrc, pl).ops)
           /\ pret.res.obj.Size = Len(pret.res.obj.Body)

(***************************************************************************)
(* C7: with several packs loaded, an object stored in one pack as a        *)
(* ref-delta whose base is stored only in another loaded pack loads        *)
(* through the repository as the patched object: the base is looked for in *)
(* the whole loader set, and the object is not reported as not found       *)
(* because its base is in another pack.  (Taken where the index lookups of *)
(* the object and of the base, each in its own pack, find them.)           *)
(***************************************************************************)
C7_RefDeltaBaseInOtherPack ==
    (rcall.op = "LoadObject" /\ rpc = "done") =>
        \A pl \in Places(psrc, AskedId) :
            ( /\ EntryAt(psrc, pl).kind = "ref"
              /\ BasePlace(psrc, pl)[1] \notin {0, pl[1]}
              /\ EntryAt(psrc, BasePlace(psrc, pl)).kind = "plain"
              /\ FindOffset(loaders[pl[1] + 1].index, rcall.a1).ret = "ok"
              /\ FindOffset(loaders[BasePlace(psrc, pl)[1] + 1].index,
                            EncodeToString(EntryAt(psrc, pl).baseId)).ret = "ok" )
            => /\ rret.err = ""
               /\ rret.obj.Type = TypeName(RootTypeAt(psrc, pl))
               /\ rret.obj.Body = BodyAt(psrc, pl)

(***************************************************************************)
(* Pack.readRaw on its own, on any content and from any offset: packs      *)
(* whose data is a few bytes after the header, packs of ref-deltas whose   *)
(* base ids go round, and packs with an entry for each first header byte.  *)
(***************************************************************************)
MaxCells == 3

\* 0x00, 0x01, a blob of size 0, an ofs-delta of size 0 without and with a
\* further size byte, and the first byte of a zlib stream
RawCells == {0, 1, 48, 96, 224, 120}

EmptyTable == [ids |-> <<>>, crcs |-> <<>>, offs |-> <<>>]

\* an empty delta on an empty base: base length 0, result length 0
EmptyDelta == <<0, 0>>

\* the bytes after the 12 of header and count; a stream starts at each 0x78
RawPack(cells) ==
    [NoLoader EXCEPT
        !.kind = "packfile",
        !.index = IndexFile(EmptyTable),
        !.data = packHeader \o U32BE(1) \o cells,
        !.z = [k \in {j \in 12..(11 + Len(cells)) : cells[j - 11] = 120} |-> EmptyDelta]]

\* ref-deltas of 23 bytes each (header, base id, stream), the base of each
\* the next one and the base of the last the first
RefCyclePack(ids) ==
    LET n == Len(ids)
        at(k) == 12 + 23 * (k - 1)
        sorted == SortIds({ids[k] : k \in 1..n})
        where(id) == CHOOSE k \in 1..n : ids[k] = id
    IN  [NoLoader EXCEPT
            !.kind = "packfile",
            !.index = IndexFile([ids  |-> sorted,
                                 crcs |-> [k \in 1..n |-> <<0, 0, 0, 0>>],
                                 offs |-> [k \in 1..n |-> U32BE(at(where(sorted[k])))]]),
            !.data = packHeader \o U32BE(n)
                        \o Flatten([k \in 1..n |->
                                       <<16 * OBJ_REF_DELTA>> \o ids[(k % n) + 1] \o ZStream])
                        \o [i \in 1..20 |-> 90],
            !.z = [k \in {at(j) + 21 : j \in 1..n} |-> EmptyDelta]]

\* a blob at offset 12 and, at offset 15, an entry whose first byte is b: a
\* byte with the high bit set is followed by one more size byte, an
\* ofs-delta by its distance to the blob, a ref-delta by the blob's id
HeaderPack(b) ==
    LET type == (b \div 16) % 8
        head == <<b>> \o (IF b >= 128 THEN <<0>> ELSE <<>>)
                    \o (IF type = OBJ_OFS_DELTA THEN <<3>>
                        ELSE IF type = OBJ_REF_DELTA THEN Id(62, 21)
                        ELSE <<>>)
    IN  [NoLoader EXCEPT
            !.kind = "packfile",
            !.index = IndexFile([ids  |-> <<Id(62, 21), Id(166, 46)>>,
                                 crcs |-> <<<<0, 0, 0, 0>>, <<0, 0, 0, 0>>>>,
                                 offs |-> <<U32BE(12), U32BE(15)>>]),
            !.data = packHeader \o U32BE(2) \o <<16 * OBJ_BLOB + 3>> \o ZStream
                        \o head \o ZStream \o [i \in 1..20 |-> 90],
            !.z = Files({<<13, RootBody>>,
                         <<15 + Len(head),
                           IF type \in {OBJ_OFS_DELTA, OBJ_REF_DELTA}
                           THEN EncodeDelta(Len(RootBody), TotalLength(ChainOps(1)), ChainOps(1))
                           ELSE RootBody>>})]

RawInputs ==
    { [pack |-> RawPack(in[1]), offset |-> in[2]] :
        in \in {x \in SeqsUpTo(RawCells, MaxCells) \X (0..(12 + MaxCells)) :
                    x[2] <= 12 + Len(x[1])} }
    \cup
    { [pack |-> RefCyclePack(in[1]), offset |-> 12 + 23 * (in[2] - 1)] :
        in \in {x \in {<<Id(166, 46)>>, <<Id(62, 21), Id(166, 46)>>} \X (1..2) :
                    x[2] <= Len(x[1])} }
    \cup
    { [pack |-> HeaderPack(b), offset |-> 15] : b \in 0..255 }

RawInit ==
    /\ \E in \in RawInputs :
         /\ loaders = initLoaders(Nothing, <<in.pack>>)
         /\ pst = rawStart(in.offset)
    /\ lpos = 2
    /\ rcall = Call("readRaw", <<>>, <<>>)
    /\ rpc = "raw"
    /\ psrc = <<>>
    /\ files = Nothing
    /\ lqueried = <<>>
    /\ rret = NoResult
    /\ pret = [pack |-> 0, res |-> NoResult]
    /\ DeltaIdle
    /\ IdxIdle

RawStepAssign(st) ==
    /\ pst' = st
    /\ rpc' = IF st.ret = "run" THEN "raw" ELSE "done"
    /\ UNCHANGED <<files, loaders, rcall, lpos, lqueried, rret, psrc, pret>>
    /\ UNCHANGED <<deltaVars, idxVars>>

\* pack.go 196-244: the header of an entry; a delta calls readRaw for its base
ReadRawHeader ==
    /\ rpc = "raw"
    /\ pst.phase = "down"
    /\ RawStepAssign(readRawStep(loaders[lpos], pst))

\* pack.go 246-258: the delta of the entry that waited, applied to its base
ReadRawDelta ==
    /\ rpc = "raw"
    /\ pst.phase = "up" /\ pst.stack # <<>>
    /\ RawStepAssign(readRawStep(loaders[lpos], pst))

\* pack.go 260: the outermost readRaw returns
ReadRawReturn ==
    /\ rpc = "raw"
    /\ pst.phase = "up" /\ pst.stack = <<>>
    /\ RawStepAssign(readRawStep(loaders[lpos], pst))

RawNext ==
    \/ ReadRawHeader
    \/ ReadRawDelta
    \/ ReadRawReturn

SpecRaw == RawInit /\ [][RawNext]_vars

\* the first header byte of the entry at an offset of the pack being read
FirstByteAt(offset) == loaders[lpos].data[offset + 1]

(***************************************************************************)
(* C12: for every pack content and every start offset, readRaw returns a   *)
(* result or an error after finitely many recursive steps: an ofs-delta    *)
(* whose base offset is zero, exceeds the entry's start or exceeds the     *)
(* pack length is rejected with bad delta, so every ofs-delta step moves   *)
(* to a strictly smaller offset, and no base resolution, ofs-delta or      *)
(* ref-delta, leads back to an entry that is already being resolved.       *)
(***************************************************************************)
C12_ReadRawTerminates ==
    /\ pst.ret # "overflow"
    /\ (pst.ret = "run" /\ pst.phase = "down") =>
          /\ \A k \in 1..Len(pst.stack) : pst.stack[k].offset # pst.offset
          /\ (pst.stack # <<>> /\ pst.objType = OBJ_OFS_DELTA)
                => pst.offset < pst.stack[Len(pst.stack)].offset

(***************************************************************************)
(* C13: for every value b in 0..255 of the first byte of an entry header,  *)
(* the type code readRaw computes is (b >> 4) & 7, bits 6..4 of b and      *)
(* nothing else: bit 0 and bit 7 have no part in it, so the codes 1, 2, 3, *)
(* 4, 6 and 7 are recognised whatever the continuation bit and the size    *)
(* nibble are.                                                             *)
(***************************************************************************)
C13_TypeIsBits6To4 ==
    [][ (rpc = "raw" /\ pst.phase = "down" /\ pst'.ret = "run")
            => pst'.objType = (FirstByteAt(pst.offset) \div 16) % 8 ]_vars

\* the header byte 0xf1 (continuation bit, type 7, size nibble 1) was read
\* as a ref-delta, which now waits for its base
C13_Witness ==
    /\ rpc = "raw"
    /\ pst.ret = "run" /\ pst.phase = "down"
    /\ Len(pst.stack) = 1
    /\ FirstByteAt(pst.stack[1].offset) = 241
    /\ pst.objType = OBJ_REF_DELTA

=============================================================================
